---- MODULE Spec2Model ----
(***************************************************************************)
(* Model of widgetastic_patternfly5/components/menus/select.py: the        *)
(* single-value Select and the CheckboxSelect page-object widgets, run     *)
(* against a rendered menu.  The rendered page (rows, toggles, disabled    *)
(* markers, selection state, open/closed menu, button text) is the state;  *)
(* every public widget method is one action.                               *)
(***************************************************************************)
EXTENDS Naturals, Sequences, FiniteSets

VARIABLES
    widget,   \* which concrete class the page object is: "Select" or "CheckboxSelect"
    dom,      \* [Labels -> Kinds]: how each label is rendered in the menu list
    open,     \* the menu is expanded
    sel,      \* [Labels -> BOOLEAN]: checked state of each row's <input>
    text,     \* visible text of the trigger button (single-value Select)
    watch,    \* what the test keeps of its run: "call", "pair" or "frame"
    last,     \* record of the most recent widget call and what it did
    prev,     \* record of the call before `last` (watch = "pair")
    sel0,     \* selection state of the page when the widget was bound
    touched   \* labels named so far by item_select / item_deselect / fill
              \* (watch = "frame")

vars == <<widget, dom, open, sel, text, watch, last, prev, sel0, touched>>

(***************************************************************************)
(* Bounds                                                                  *)
(***************************************************************************)
MaxLen == 3       \* longest list handed to item_select / item_deselect
MaxFill == 3      \* most entries of a mapping handed to fill

(***************************************************************************)
(* The rendered page                                                       *)
(***************************************************************************)
Order == <<"Alpha", "Beta", "Gamma">>          \* document order of the rows

Labels == {Order[i] : i \in 1..Len(Order)}

Placeholder == "Select a value"

\* absent:   no row carries the label
\* plain:    a row without an <input> toggle
\* disabled: a row marked pf-m-disabled (its toggle, if any, ignores clicks)
\* enabled:  a selectable row
Kinds == {"absent", "plain", "disabled", "enabled"}

RECURSIVE Filter(_, _)
Filter(q, keep) ==
    IF q = <<>> THEN <<>>
    ELSE IF Head(q) \in keep THEN <<Head(q)>> \o Filter(Tail(q), keep)
    ELSE Filter(Tail(q), keep)

Range(q) == {q[i] : i \in 1..Len(q)}

\* browser.elements(ITEMS_LOCATOR): the rendered rows, in document order
ITEMS_LOCATOR == Filter(Order, {L \in Labels : dom[L] # "absent"})

\* ITEM_LOCATOR of BaseSelect: the row whose text is `item`
ITEM_LOCATOR(item) == dom[item] # "absent"

\* ITEM_LOCATOR_BASE of BaseCheckboxSelect: the row whose text is `item`
ITEM_LOCATOR_BASE(item) == dom[item] # "absent"

\* ITEM_LOCATOR of BaseCheckboxSelect: the <input> below that row
CheckboxITEM_LOCATOR(item) == dom[item] \in {"disabled", "enabled"}

(***************************************************************************)
(* Page state threaded through one call, and the events the call causes    *)
(***************************************************************************)
Ev(kind, item) == [ev |-> kind, item |-> item]

Page == [open |-> open, sel |-> sel, text |-> text, log |-> <<>>]

Ok(s, v) == [s |-> s, exc |-> "none", payload |-> <<>>, ret |-> v]

Raise(s, e, p) == [s |-> s, exc |-> e, payload |-> p, ret |-> "None"]

Str(L) == [type |-> "str", val |-> L]

List(q) == [type |-> "list", val |-> q]

NoneValue == "None"

(***************************************************************************)
(* The browser / DOM collaborator                                          *)
(***************************************************************************)
\* browser.is_selected(element) on a row's <input>
is_selected(s, item) == s.sel[item]

\* a click that lands on the first enabled toggle of the list, whatever the item
click_first_toggle(s, item) ==
    LET on == Filter(Order, {L \in Labels : dom[L] = "enabled"})
    IN  [s EXCEPT !.sel = IF on # <<>> THEN [@ EXCEPT ![Head(on)] = ~@] ELSE @,
                  !.log = Append(@, Ev("click", item))]

\* element.click() on a checkbox row's <input>: an enabled toggle flips, a
\* disabled one ignores the click
click(s, item) ==
    [s EXCEPT !.sel = IF dom[item] = "enabled" THEN [@ EXCEPT ![item] = ~@] ELSE @,
              !.log = Append(@, Ev("click", item))]

\* browser.click(element) on a row of the single-value menu: the page shows
\* the chosen label on the trigger button
browser_click(s, item) ==
    [s EXCEPT !.text = item, !.log = Append(@, Ev("click", item))]

(***************************************************************************)
(* The generic dropdown collaborator (dropdown.py)                         *)
(***************************************************************************)
\* Dropdown.open(): expands the menu unless it is expanded already
Dropdown_open(s) ==
    [s EXCEPT !.open = TRUE, !.log = Append(@, Ev("open", ""))]

\* Dropdown.close(): collapses the menu if it is expanded ("close"); a call on
\* a collapsed menu changes nothing ("close_noop")
Dropdown_close(s) ==
    [s EXCEPT !.open = FALSE,
              !.log = Append(@, Ev(IF s.open THEN "close" ELSE "close_noop", ""))]

\* Dropdown.items: the labels of all rows, read with the menu opened and
\* closed again
Dropdown_items(s) == Ok(Dropdown_close(Dropdown_open(s)), ITEMS_LOCATOR)

\* Dropdown.enabled_items: the labels of the rows that are not disabled
Dropdown_enabled_items(s) ==
    Ok(Dropdown_close(Dropdown_open(s)),
       Filter(Order, {L \in Labels : dom[L] \in {"plain", "enabled"}}))

\* Dropdown.item_element(item, close): open, look the item up with the
\* class's ITEM_LOCATOR, close on request
Dropdown_item_element(s, item, close) ==
    LET s1 == Dropdown_open(s)
        found == IF widget = "CheckboxSelect" THEN CheckboxITEM_LOCATOR(item)
                 ELSE ITEM_LOCATOR(item)
    IN  IF found THEN Ok(IF close THEN Dropdown_close(s1) ELSE s1, item)
        ELSE Raise(s1, "DropdownItemNotFound", <<>>)

(***************************************************************************)
(* BaseCheckboxSelect._get_items / items                                   *)
(***************************************************************************)
_get_items(s, close) ==
    LET s1 == Dropdown_open(s)
    IN  Ok(IF close THEN Dropdown_close(s1) ELSE s1, ITEMS_LOCATOR)

BaseCheckboxSelect_items(s) == _get_items(s, TRUE)

\* self.items / self.enabled_items as the widget's class resolves them
self_items(s) ==
    IF widget = "CheckboxSelect" THEN BaseCheckboxSelect_items(s)
    ELSE Dropdown_items(s)

(***************************************************************************)
(* BaseSelect                                                              *)
(***************************************************************************)
\* item_element without the except clause: the dropdown's error passes through
item_element_untranslated(s, item, close) == Dropdown_item_element(s, item, close)

item_element(s, item, close) ==
    LET r == Dropdown_item_element(s, item, close)
    IN  IF r.exc = "DropdownItemNotFound"
        THEN LET it == self_items(r.s)
             IN  Raise(it.s, "SelectItemNotFound", it.ret)
        ELSE r

\* Dropdown.item_enabled(item, close): looks the item up through
\* self.item_element and reports whether the row carries the disabled marker
Dropdown_item_enabled(s, item, close) ==
    LET r == item_element(s, item, FALSE)
    IN  IF r.exc # "none" THEN r
        ELSE Ok(IF close THEN Dropdown_close(r.s) ELSE r.s, dom[item] # "disabled")

\* Dropdown.item_select(item): open, refuse a disabled item, click the item,
\* and close the menu on every exit path
Dropdown_item_select(s, item) ==
    LET en == Dropdown_item_enabled(s, item, FALSE)
        el == item_element(en.s, item, FALSE)
        r  == IF en.exc # "none" THEN en
              ELSE IF ~en.ret THEN Raise(en.s, "DropdownItemDisabled", <<>>)
              ELSE IF el.exc # "none" THEN el
              ELSE Ok(browser_click(el.s, item), NoneValue)
    IN  [r EXCEPT !.s = Dropdown_close(@)]

\* item_select whose message lists self.items instead of self.enabled_items
BaseSelect_item_select_all_items(s, item) ==
    LET r == Dropdown_item_select(s, item)
    IN  IF r.exc = "DropdownItemDisabled"
        THEN LET it == self_items(r.s)
             IN  Raise(it.s, "SelectItemDisabled", it.ret)
        ELSE r

BaseSelect_item_select(s, item) ==
    LET r == Dropdown_item_select(s, item)
    IN  IF r.exc = "DropdownItemDisabled"
        THEN LET en == Dropdown_enabled_items(r.s)
             IN  Raise(en.s, "SelectItemDisabled", en.ret)
        ELSE r

BaseSelect_fill(s, value) ==
    LET r == BaseSelect_item_select(s, value)
    IN  [r EXCEPT !.ret = NoneValue]

\* read of a locator that matches nothing once a value is chosen
BaseSelect_read_placeholder(s) == Ok(s, Placeholder)

\* browser.text(BUTTON_LOCATOR)
BaseSelect_read(s) == Ok(s, s.text)

(***************************************************************************)
(* BaseCheckboxSelect                                                      *)
(***************************************************************************)
\* if not isinstance(items, (list, tuple, set)): items = [items]
AsList(items) == IF items.type = "str" THEN <<items.val>> ELSE items.val

\* item_select without the is_selected test: every item is clicked
RECURSIVE SelectLoopAlwaysClick(_, _)
SelectLoopAlwaysClick(s, items) ==
    IF items = <<>> THEN Ok(s, NoneValue)
    ELSE LET item == Head(items)
             r == item_element(s, item, FALSE)
         IN  IF r.exc # "none" THEN r
             ELSE SelectLoopAlwaysClick(click(r.s, item), Tail(items))

\* item_select that swallows a failed lookup and goes on with the next item
RECURSIVE SelectLoopSkipMissing(_, _)
SelectLoopSkipMissing(s, items) ==
    IF items = <<>> THEN Ok(s, NoneValue)
    ELSE LET item == Head(items)
             r == item_element(s, item, FALSE)
         IN  IF r.exc # "none" THEN SelectLoopSkipMissing(r.s, Tail(items))
             ELSE SelectLoopSkipMissing(
                      IF ~is_selected(r.s, item) THEN click(r.s, item) ELSE r.s,
                      Tail(items))

\* the try-body of item_select: for item in items: ...
RECURSIVE SelectLoop(_, _)
SelectLoop(s, items) ==
    IF items = <<>> THEN Ok(s, NoneValue)
    ELSE LET item == Head(items)
             r == item_element(s, item, FALSE)
         IN  IF r.exc # "none" THEN r
             ELSE SelectLoop(IF ~is_selected(r.s, item) THEN click(r.s, item) ELSE r.s,
                             Tail(items))

\* the try-body of item_deselect
RECURSIVE DeselectLoop(_, _)
DeselectLoop(s, items) ==
    IF items = <<>> THEN Ok(s, NoneValue)
    ELSE LET item == Head(items)
             r == item_element(s, item, FALSE)
         IN  IF r.exc # "none" THEN r
             ELSE DeselectLoop(IF is_selected(r.s, item) THEN click(r.s, item) ELSE r.s,
                               Tail(items))

\* a cleanup written as an except-handler: it runs only when the body raised
CloseOnErrorOnly(r, close) ==
    IF close /\ r.exc # "none" THEN [r EXCEPT !.s = Dropdown_close(@)] ELSE r

\* finally: if close: self.close()
FinallyClose(r, close) == IF close THEN [r EXCEPT !.s = Dropdown_close(@)] ELSE r

item_select(s, items, close) == FinallyClose(SelectLoop(s, AsList(items)), close)

item_deselect(s, items, close) == FinallyClose(DeselectLoop(s, AsList(items)), close)

item_enabled(s, item, close) ==
    LET s1 == Dropdown_open(s)
    IN  IF ITEM_LOCATOR_BASE(item)
        THEN Ok(IF close THEN Dropdown_close(s1) ELSE s1, dom[item] # "disabled")
        ELSE Raise(s1, "SelectItemNotFound", <<>>)

\* fill whose per-entry calls use their default close=True
RECURSIVE FillLoopClosing(_, _)
FillLoopClosing(s, items) ==
    IF items = <<>> THEN Ok(s, NoneValue)
    ELSE LET e == Head(items)
             r == IF e.value THEN item_select(s, Str(e.item), TRUE)
                  ELSE item_deselect(s, Str(e.item), TRUE)
         IN  IF r.exc # "none" THEN r ELSE FillLoopClosing(r.s, Tail(items))

\* the try-body of fill: for item, value in items.items(): ...
RECURSIVE FillLoop(_, _)
FillLoop(s, items) ==
    IF items = <<>> THEN Ok(s, NoneValue)
    ELSE LET e == Head(items)
             r == IF e.value THEN item_select(s, Str(e.item), FALSE)
                  ELSE item_deselect(s, Str(e.item), FALSE)
         IN  IF r.exc # "none" THEN r ELSE FillLoop(r.s, Tail(items))

fill(s, items) == FinallyClose(FillLoop(s, items), TRUE)

\* read whose lookup of the row's <input> never succeeds
read_no_input(s) ==
    Ok(Dropdown_close(Dropdown_open(s)), [L \in Range(ITEMS_LOCATOR) |-> FALSE])

\* Dropdown.opened(): the menu is open inside the block and closed on exit
read(s) ==
    LET s1 == Dropdown_open(s)
        selected == [L \in Range(ITEMS_LOCATOR) |->
                        IF dom[L] = "plain" THEN FALSE ELSE s1.sel[L]]
    IN  Ok(Dropdown_close(s1), selected)

(***************************************************************************)
(* Calls a test can make, and what the test keeps of them                  *)
(***************************************************************************)
Lists ==
    {q \in UNION {[1..n -> Labels] : n \in 0..MaxLen} :
        \A i, j \in 1..Len(q) : i # j => q[i] # q[j]}

Entries == [item : Labels, value : BOOLEAN]

\* a dict: its keys are distinct, its entries come in insertion order
Mappings ==
    {m \in UNION {[1..n -> Entries] : n \in 0..MaxFill} :
        \A i, j \in 1..Len(m) : i # j => m[i].item # m[j].item}

ItemArgs == {Str(L) : L \in Labels} \cup {List(q) : q \in Lists}

Keys(m) == {m[i].item : i \in 1..Len(m)}

NoSel == [L \in Labels |-> FALSE]

NoCall ==
    [op |-> "none", items |-> <<>>, mapping |-> <<>>, close |-> TRUE,
     exc |-> "none", payload |-> <<>>, ret |-> NoneValue, log |-> <<>>]

Record(op, items, mapping, close, r) ==
    [op |-> op, items |-> items, mapping |-> mapping, close |-> close,
     exc |-> r.exc, payload |-> r.payload, ret |-> r.ret, log |-> r.s.log]

\* the labels a call names as ones to select or deselect
Named(op, items, mapping) ==
    IF op \in {"item_select", "item_deselect"} /\ widget = "CheckboxSelect"
    THEN Range(items)
    ELSE IF op = "fill" /\ widget = "CheckboxSelect" THEN Keys(mapping)
    ELSE {}

\* the page after the call, and the test's notes
Commit(op, items, mapping, close, result) ==
    \E r \in {result} :
        /\ open' = r.s.open
        /\ sel' = r.s.sel
        /\ text' = r.s.text
        /\ last' = IF watch = "frame" THEN last
                   ELSE Record(op, items, mapping, close, r)
        /\ prev' = IF watch = "pair" THEN last ELSE prev
        /\ touched' = IF watch = "frame" THEN touched \cup Named(op, items, mapping)
                      ELSE touched
        /\ UNCHANGED <<widget, dom, watch, sel0>>

\* any page the widget can be bound to
InitPage ==
    /\ dom \in [Labels -> Kinds]
    /\ widget = "Select" => \A L \in Labels : dom[L] # "plain"
    /\ open \in BOOLEAN
    /\ sel \in [Labels -> BOOLEAN]
    /\ \A L \in Labels :
          sel[L] => widget = "CheckboxSelect" /\ dom[L] \in {"disabled", "enabled"}
    /\ text \in {Placeholder} \cup Labels
    /\ text # Placeholder => widget = "Select" /\ dom[text] # "absent"
    /\ last = NoCall
    /\ prev = NoCall
    /\ touched = {}

Init ==
    /\ widget = "CheckboxSelect"
    /\ watch = "call"
    /\ InitPage
    /\ sel0 = NoSel

(***************************************************************************)
(* Select: one action per public method                                    *)
(***************************************************************************)
SelectItemSelect ==
    \E item \in Labels :
        Commit("item_select", <<item>>, <<>>, TRUE, BaseSelect_item_select(Page, item))

SelectFill ==
    \E value \in Labels :
        Commit("fill", <<value>>, <<>>, TRUE, BaseSelect_fill(Page, value))

SelectRead == Commit("read", <<>>, <<>>, TRUE, BaseSelect_read(Page))

\* Dropdown.open(), inherited by both widgets
Open == Commit("open", <<>>, <<>>, FALSE, Ok(Dropdown_open(Page), NoneValue))

(***************************************************************************)
(* CheckboxSelect: one action per public method                            *)
(***************************************************************************)
ItemSelect ==
    \E items \in ItemArgs, close \in BOOLEAN :
        Commit("item_select", AsList(items), <<>>, close, item_select(Page, items, close))

ItemDeselect ==
    \E items \in ItemArgs, close \in BOOLEAN :
        Commit("item_deselect", AsList(items), <<>>, close,
               item_deselect(Page, items, close))

ItemEnabled ==
    \E item \in Labels, close \in BOOLEAN :
        Commit("item_enabled", <<item>>, <<>>, close, item_enabled(Page, item, close))

Fill == \E items \in Mappings : Commit("fill", <<>>, items, TRUE, fill(Page, items))

Read == Commit("read", <<>>, <<>>, TRUE, read(Page))

Items == Commit("items", <<>>, <<>>, TRUE, BaseCheckboxSelect_items(Page))

Next ==
    \/ ItemSelect
    \/ ItemDeselect
    \/ ItemEnabled
    \/ Fill
    \/ Read
    \/ Items
    \/ Open

\* a CheckboxSelect under test, the latest call on record
Spec == Init /\ [][Next]_vars

\* a test of two calls in a row: the second call is still to be made.  Every
\* page the widget can reach is an initial page, so two calls from an initial
\* page cover any two consecutive calls of a longer run.
InPair == prev.op = "none"

InitSelect ==
    /\ widget = "Select"
    /\ watch = "pair"
    /\ InitPage
    /\ sel0 = NoSel

NextSelect ==
    \/ InPair /\ SelectItemSelect
    \/ InPair /\ SelectFill
    \/ InPair /\ SelectRead
    \/ InPair /\ Open

\* two calls in a row on a single-value Select, from any page
SpecSelect == InitSelect /\ [][NextSelect]_vars

InitPair ==
    /\ widget = "CheckboxSelect"
    /\ watch = "pair"
    /\ InitPage
    /\ sel0 = NoSel

NextFillRead ==
    \/ InPair /\ Fill
    \/ InPair /\ Read

\* two calls in a row out of fill and read on a CheckboxSelect, from any page
SpecFillRead == InitPair /\ [][NextFillRead]_vars

NextTwice ==
    \/ InPair /\ ItemSelect
    \/ InPair /\ ItemDeselect

\* two calls in a row out of item_select and item_deselect, from any page
SpecTwice == InitPair /\ [][NextTwice]_vars

InitFrame ==
    /\ widget = "CheckboxSelect"
    /\ watch = "frame"
    /\ InitPage
    /\ sel0 = sel

\* a CheckboxSelect under test, the labels named so far on record
SpecFrame == InitFrame /\ [][Next]_vars

(***************************************************************************)
(* Properties                                                              *)
(***************************************************************************)
CloseCalls(log) == {i \in 1..Len(log) : log[i].ev \in {"close", "close_noop"}}

Clicks(log) == {i \in 1..Len(log) : log[i].ev = "click"}

HasToggle(L) == dom[L] \in {"disabled", "enabled"}

\* C1: after item_select, item_deselect, fill or read of a CheckboxSelect made
\* with default closing, the menu is closed, whether the call returned or raised.
C1_MenuClosedAfterCall ==
    (last.op \in {"item_select", "item_deselect", "fill", "read"} /\ last.close)
        => ~open

\* a fill that raised SelectItemNotFound after opening the menu, menu closed
C1_Witness ==
    /\ last.op = "fill"
    /\ last.exc = "SelectItemNotFound"
    /\ \E i \in 1..Len(last.log) : last.log[i].ev = "close"
    /\ ~open

\* C8 as claimed: item_enabled(item, close=True) leaves the menu closed on every
\* exit path, also when the item is absent and SelectItemNotFound is raised;
\* with close=False the menu is left open.
C8_ItemEnabledReleasesMenu ==
    last.op = "item_enabled" =>
        /\ last.exc = (IF dom[last.items[1]] = "absent" THEN "SelectItemNotFound"
                       ELSE "none")
        /\ last.exc = "none" => last.ret = (dom[last.items[1]] # "disabled")
        /\ open = ~last.close

\* C7 as claimed: fill performs exactly one close, as its very last step, on
\* every outcome, SelectItemNotFound included.
C7_ExactlyOneCloseAlways ==
    last.op = "fill" =>
        /\ Cardinality(CloseCalls(last.log)) = 1
        /\ Len(last.log) \in CloseCalls(last.log)

\* C7 amended: fill never closes between entries.  When every entry succeeds it
\* closes exactly once, as its last step.  When an entry has no rendered toggle,
\* reading `items` for the SelectItemNotFound message has closed the menu before
\* fill's own close runs: that last close is a repeated one, on a closed menu,
\* and nothing is clicked after the first close.  The menu ends closed.
C7_CloseOnlyAtEnd ==
    last.op = "fill" =>
        LET n == Len(last.log)
            done == {i \in 1..Len(last.mapping) : HasToggle(last.mapping[i].item)}
        IN  /\ ~open
            /\ n \in CloseCalls(last.log)
            /\ \A i \in CloseCalls(last.log), j \in Clicks(last.log) : j < i
            /\ last.exc = "none" =>
                  /\ CloseCalls(last.log) = {n}
                  /\ done = 1..Len(last.mapping)
            /\ last.exc # "none" =>
                  /\ last.exc = "SelectItemNotFound"
                  /\ Cardinality(CloseCalls(last.log)) > 1
                  /\ last.log[n].ev = "close_noop"
                  /\ done # 1..Len(last.mapping)

\* a fill of three entries that clicked for the first and failed on the second
C7_Witness ==
    /\ last.op = "fill"
    /\ Len(last.mapping) = 3
    /\ last.exc = "SelectItemNotFound"
    /\ Clicks(last.log) # {}
    /\ Cardinality(CloseCalls(last.log)) > 1

\* C2 as claimed: after fill(m) returned, read() gives r[L] = m[L] for every
\* label of m (all of them rendered with a toggle).
C2_RoundTripAll ==
    (prev.op = "fill" /\ prev.exc = "none" /\ last.op = "read") =>
        \A i \in 1..Len(prev.mapping) :
            LET e == prev.mapping[i]
            IN  e.item \in DOMAIN last.ret /\ last.ret[e.item] = e.value

\* C2 amended: after fill(m) returned, read() gives r[L] = m[L] for every label
\* of m that is not disabled (every label of m is in r, with the state its
\* toggle has).
C2_RoundTripEnabled ==
    (prev.op = "fill" /\ prev.exc = "none" /\ last.op = "read") =>
        \A i \in 1..Len(prev.mapping) :
            LET e == prev.mapping[i]
            IN  /\ HasToggle(e.item)
                /\ e.item \in DOMAIN last.ret
                /\ last.ret[e.item] = sel[e.item]
                /\ dom[e.item] = "enabled" => last.ret[e.item] = e.value

\* fill({Alpha: True, Beta: False, Gamma: True}) on enabled rows that showed the
\* opposite, then read()
C2_Witness ==
    /\ prev.op = "fill"
    /\ prev.exc = "none"
    /\ prev.mapping = <<[item |-> "Alpha", value |-> TRUE],
                        [item |-> "Beta", value |-> FALSE],
                        [item |-> "Gamma", value |-> TRUE]>>
    /\ Cardinality(Clicks(prev.log)) = 3
    /\ \A L \in Labels : dom[L] = "enabled"
    /\ last.op = "read"
    /\ last.ret = [L \in Labels |-> L # "Beta"]

\* a click of item_select hits only unselected toggles, one of item_deselect
\* only selected ones
ClicksOnlyWhenNeeded ==
    /\ last'.op = "item_select" =>
          \A i \in Clicks(last'.log) : ~sel[last'.log[i].item]
    /\ last'.op = "item_deselect" =>
          \A i \in Clicks(last'.log) : sel[last'.log[i].item]

\* item_select([L]) made twice in a row leaves L selected without a click the
\* second time; item_deselect([L]) on an unselected L clicks nothing
Idempotent(L) ==
    /\ (/\ prev'.op = "item_select" /\ prev'.items = <<L>>
        /\ last'.op = "item_select" /\ last'.items = <<L>>) =>
          (sel'[L] /\ Clicks(last'.log) = {})
    /\ (last'.op = "item_deselect" /\ last'.items = <<L>> /\ ~sel[L]) =>
          (~sel'[L] /\ Clicks(last'.log) = {})

\* C3 as claimed: idempotence for every rendered label.
C3_IdempotentRendered ==
    [][/\ \A L \in Labels : dom[L] # "absent" => Idempotent(L)
       /\ ClicksOnlyWhenNeeded]_vars

\* C3 amended: idempotence for every label rendered with a toggle that is not
\* disabled; clicks are issued only when the toggle is in the other state.
C3_IdempotentEnabled ==
    [][/\ \A L \in Labels : dom[L] = "enabled" => Idempotent(L)
       /\ ClicksOnlyWhenNeeded]_vars

\* the second of two item_select([L]) calls in a row: L selected, nothing clicked
C3_Witness ==
    /\ last.op = "item_select"
    /\ prev.op = "item_select"
    /\ prev.items = last.items
    /\ Clicks(prev.log) # {}
    /\ Len(last.items) = 1
    /\ dom[last.items[1]] = "enabled"
    /\ sel[last.items[1]]
    /\ Clicks(last.log) = {}

\* index of the first label of q that `missing` holds of, 0 if there is none
RECURSIVE FirstAt(_, _, _)
FirstAt(q, missing, i) ==
    IF i > Len(q) THEN 0
    ELSE IF q[i] \in missing THEN i
    ELSE FirstAt(q, missing, i + 1)

Want(op) == op = "item_select"

\* C9 as claimed: the call stops at the first label that is not rendered with
\* SelectItemNotFound; the labels before it are in the requested state, the
\* labels after it as they were.
C9_StopsAtFirstUnrendered ==
    [][last'.op \in {"item_select", "item_deselect"} =>
          LET q == last'.items
              k == FirstAt(q, {L \in Labels : dom[L] = "absent"}, 1)
          IN  k # 0 =>
                /\ last'.exc = "SelectItemNotFound"
                /\ \A i \in 1..(k - 1) : sel'[q[i]] = Want(last'.op)
                /\ \A i \in (k + 1)..Len(q) : sel'[q[i]] = sel[q[i]]]_vars

\* C9 amended: the call stops at the first label without a rendered toggle (not
\* rendered, or a row without an input) with SelectItemNotFound, and returns
\* normally if there is none; of the labels before it the enabled ones are in
\* the requested state and the disabled ones as they were (no rollback); every
\* label not listed before it is as it was; clicks come in the caller's order.
C9_StopsAtFirstWithoutToggle ==
    [][last'.op \in {"item_select", "item_deselect"} =>
          LET q == last'.items
              k == FirstAt(q, {L \in Labels : ~HasToggle(L)}, 1)
              n == IF k = 0 THEN Len(q) ELSE k - 1
              log == last'.log
          IN  /\ last'.exc = (IF k = 0 THEN "none" ELSE "SelectItemNotFound")
              /\ \A i \in 1..n :
                    sel'[q[i]] = (IF dom[q[i]] = "enabled" THEN Want(last'.op)
                                  ELSE sel[q[i]])
              /\ \A L \in Labels \ {q[i] : i \in 1..n} : sel'[L] = sel[L]
              /\ \A i, j \in Clicks(log) :
                    i < j => \E a, b \in 1..n :
                                a < b /\ q[a] = log[i].item /\ q[b] = log[j].item]_vars

\* a call over three labels that selected the first, failed on the second and
\* left the third, an enabled row, unselected
C9_Witness ==
    /\ last.op = "item_select"
    /\ Len(last.items) = 3
    /\ last.exc = "SelectItemNotFound"
    /\ dom[last.items[1]] = "enabled"
    /\ dom[last.items[2]] = "absent"
    /\ dom[last.items[3]] = "enabled"
    /\ sel[last.items[1]]
    /\ ~sel[last.items[3]]
    /\ Cardinality(Clicks(last.log)) = 1

\* C4: on a Select, item_select(L) or fill(L) of a present, enabled L returns,
\* and the read() that follows yields L, whatever was shown before and whether
\* the menu was open or not.
C4_SelectThenRead ==
    /\ (last.op \in {"item_select", "fill"} /\ dom[last.items[1]] = "enabled") =>
          last.exc = "none"
    /\ (prev.op \in {"item_select", "fill"} /\ prev.exc = "none" /\ last.op = "read") =>
          (last.exc = "none" /\ last.ret = prev.items[1])

\* a read that follows a successful item_select and yields a label
C4_Witness ==
    /\ widget = "Select"
    /\ prev.op = "item_select"
    /\ prev.exc = "none"
    /\ dom[prev.items[1]] = "enabled"
    /\ last.op = "read"
    /\ last.ret = prev.items[1]

\* C5: on a Select, item_select(L) of a label that is not among the items raises
\* SelectItemNotFound listing exactly the rendered items, and the value read()
\* reports is unchanged.
C5_NotFoundListsItems ==
    [][(last'.op = "item_select" /\ dom[last'.items[1]] = "absent") =>
          /\ last'.exc = "SelectItemNotFound"
          /\ last'.payload = ITEMS_LOCATOR
          /\ Clicks(last'.log) = {}
          /\ BaseSelect_read(Page)'.ret = BaseSelect_read(Page).ret]_vars

\* a failed item_select on a menu showing two other items, one of them chosen
C5_Witness ==
    /\ widget = "Select"
    /\ last.op = "item_select"
    /\ last.exc = "SelectItemNotFound"
    /\ Len(last.payload) = 2
    /\ text \in Labels

\* C6: on a Select, item_select(L) of a present but disabled L raises
\* SelectItemDisabled listing exactly the enabled items, clicks nothing and
\* leaves the value read() reports unchanged.
C6_DisabledListsEnabled ==
    [][(last'.op = "item_select" /\ dom[last'.items[1]] = "disabled") =>
          /\ last'.exc = "SelectItemDisabled"
          /\ last'.payload = Filter(Order, {L \in Labels : dom[L] = "enabled"})
          /\ Clicks(last'.log) = {}
          /\ BaseSelect_read(Page)'.ret = BaseSelect_read(Page).ret]_vars

\* items Alpha, Beta, Gamma with Beta disabled: item_select("Beta") lists Alpha, Gamma
C6_Witness ==
    /\ widget = "Select"
    /\ dom = [L \in Labels |-> IF L = "Beta" THEN "disabled" ELSE "enabled"]
    /\ last.op = "item_select"
    /\ last.items = <<"Beta">>
    /\ last.exc = "SelectItemDisabled"
    /\ last.payload = <<"Alpha", "Gamma">>

\* C10: a label's selection state differs from the one the page started with
\* only if some item_select, item_deselect or fill call named the label; read,
\* items and item_enabled name none.
C10_Frame == \A L \in Labels : sel[L] # sel0[L] => L \in touched

\* one label changed by a call that named it, another enabled label left alone
C10_Witness ==
    /\ watch = "frame"
    /\ \E L \in touched : sel[L] # sel0[L]
    /\ \E M \in Labels \ touched : dom[M] = "enabled" /\ sel[M]

====
